---- MODULE Spec2Model ----
(***************************************************************************)
(* Asana -> Google Drive backup agent (src/index.js).                      *)
(*                                                                         *)
(* The process loads the module (configuration, GoogleAuth), listens, and  *)
(* then serves POST /backup-asana, GET /health and GET /test.  A backup    *)
(* request is an async handler: every `await` of an HTTP call is one step  *)
(* of the request, so two requests in flight interleave at those points.   *)
(* The source service (Asana) and the destination store (Drive / Sheets)   *)
(* are external: every call to them either answers or throws.              *)
(***************************************************************************)
EXTENDS Naturals, Sequences, FiniteSets, TLC

(* ------------------------------ bounds -------------------------------- *)
\* most projects the workspace listing returns, when requests come one
\* after the other (Sequential)
MaxProjects == 2
\* most projects the workspace listing returns, when requests overlap (Spec)
MaxOverlapProjects == 1
\* most task pages a project has in the source
MaxPages == 2
\* last calendar day the clock reaches (days are 0..MaxDay)
MaxDay == 1
\* most HTTP calls to a healthy, configured service that fail anyway
MaxFaults == 1

\* the two request slots: backup requests that may be in flight together
Reqs == {"A", "B"}

(* --------------------------- JavaScript values ------------------------ *)
Null == "<null>"
Undefined == "<undefined>"
\* identifier slot not assigned yet (a `const` before its await resolves)
NoId == ""

\* JS truthiness of a string-or-null-or-undefined value (`while (offset)`)
Truthy(v) == v \notin {Null, Undefined, ""}

(* ------------------------------ the source ---------------------------- *)
ProjectNames == <<"Alpha", "Beta", "Gamma", "Delta", "Epsilon">>

\* the project objects the workspace listing holds; gid p, name ProjectNames[p]
Project(p) == [gid |-> p, name |-> ProjectNames[p]]

\* the listing's data array when the workspace holds n projects
ProjectList(n) == [p \in 1..n |-> Project(p)]

\* number of task pages of project gid in the source
NumPages(gid) == 1 + (gid % MaxPages)

\* continuation token that leads to page j+1
Token(j) == "t" \o ToString(j)

\* page the token `offset` addresses: no offset is page 1, Token(j) is page j+1
PageOf(offset) ==
  IF ~Truthy(offset) THEN 1
  ELSE CHOOSE j \in 2..(MaxPages + 2) : Token(j - 1) = offset

\* tasks on page j of project gid (each task is its own gid)
PageData(gid, j) == <<100 * gid + 10 * j + 1, 100 * gid + 10 * j + 2>>

\* response.data of GET /projects/<gid>/tasks with params.offset = offset:
\* next_page is null (<<>>) on the last page, else an object with the token
TasksResponse(gid, offset) ==
  LET j == PageOf(offset) IN
  [data |-> PageData(gid, j),
   next_page |-> IF j < NumPages(gid) THEN <<[offset |-> Token(j)]>> ELSE <<>>]

\* every task of project gid, in page order
AllTasks(gid) ==
  LET RECURSIVE upto(_)
      upto(j) == IF j = 0 THEN <<>> ELSE upto(j - 1) \o PageData(gid, j)
  IN upto(NumPages(gid))

(* --------------------------- error messages --------------------------- *)
\* message of the error each failing HTTP call throws
ErrMsg(call) == call \o " failed"

\* createProjectBackup's rethrow (line 149)
WrapError(name, msg) == "Failed to backup " \o name \o ": " \o msg

(* ------------------------------- state -------------------------------- *)
VARIABLES
  env,      \* process.env: which of the three plain values are present, and
            \* the text of the service-account credential
  server,   \* "loading" (module being evaluated), "listening" or "crashed"
  today,    \* the calendar day `new Date()` reads at line 133
  req,      \* per request slot: the handler's position and local variables
  folders,  \* destination store: the folders that exist
  docs,     \* destination store: the spreadsheet documents that exist
  faults    \* history: number of calls that failed although they could answer

vars == <<env, server, today, req, folders, docs, faults>>

\* lines 12-14: the three values read into constants at module load
ASANA_ACCESS_TOKEN == IF env.asana THEN "token" ELSE Undefined
ASANA_WORKSPACE_ID == IF env.workspace THEN "ws" ELSE Undefined
GOOGLE_DRIVE_FOLDER_ID == IF env.drive THEN "root" ELSE Undefined

\* process.env.GOOGLE_SERVICE_ACCOUNT_KEY, read at lines 18 and 323
GOOGLE_SERVICE_ACCOUNT_KEY == env.serviceAccount

\* a well-formed credential blob
ServiceAccountJson == "{\"client_email\":\"agent@example.iam\",\"private_key\":\"k\"}"

\* the values the credential variable takes here: absent, empty, text that is
\* not JSON, and a well-formed blob
ServiceAccountKeys == {Undefined, "", "{not json", ServiceAccountJson}

\* the texts that are JSON, among those JSON.parse is given here
JsonTexts == {"null", "{}", ServiceAccountJson}

\* a request slot nobody has used yet
IdleReq ==
  [pc |-> "idle", projects |-> <<>>, idx |-> 0, tasks |-> <<>>, offset |-> Null,
   files |-> <<>>, folderId |-> NoId, spreadsheetId |-> NoId, stamp |-> 0,
   results |-> <<>>, response |-> [status |-> 0], log |-> <<>>, threw |-> <<>>]

\* the slots are taken in order: a request gets the first free one
SlotBefore(o, r) == o = "A" /\ r = "B"

InFlight(r) == req[r].pc \notin {"idle", "done"}

\* project the loop of request r is on
CurProject(r) == req[r].projects[req[r].idx]

\* line 129
FolderName(project) == project.name \o " - Asana Backup"

\* lines 133-134: the date part of the ISO timestamp, and the file name
FileName(day) == "Backup_" \o ToString(day)

(* ------------------------- module initialisation ---------------------- *)
\* JSON.parse(process.env.GOOGLE_SERVICE_ACCOUNT_KEY), line 18: JSON.parse
\* throws a SyntaxError on every argument that is not JSON text; an absent
\* variable is `undefined`, parsed as the text "undefined", and is rejected
\* like the empty string and like malformed text
JsonParseThrows(text) == text \notin JsonTexts

Init ==
  /\ env \in [asana : BOOLEAN, workspace : BOOLEAN, drive : BOOLEAN,
              serviceAccount : ServiceAccountKeys]
  /\ server = "loading"
  /\ today = 0
  /\ req = [r \in Reqs |-> IdleReq]
  /\ folders = {}
  /\ docs = {}
  /\ faults = 0

\* lines 4-331 evaluated top to bottom: an exception at line 18 ends the
\* process before app.listen (line 329) is reached
LoadModule ==
  /\ server = "loading"
  /\ server' = IF JsonParseThrows(GOOGLE_SERVICE_ACCOUNT_KEY) THEN "crashed" ELSE "listening"
  /\ UNCHANGED <<env, today, req, folders, docs, faults>>

\* body of the GET /health response, line 312 (the instant of `timestamp`
\* is not modelled)
HealthBody == [status |-> "healthy"]

\* body of the GET /test response, lines 317-325
TestBody ==
  [message |-> "Agent is running",
   configured |-> [asana |-> Truthy(ASANA_ACCESS_TOKEN),
                   workspace |-> Truthy(ASANA_WORKSPACE_ID),
                   drive |-> Truthy(GOOGLE_DRIVE_FOLDER_ID),
                   serviceAccount |-> Truthy(GOOGLE_SERVICE_ACCOUNT_KEY)]]

\* GET /health, lines 311-313: answered by a listening process; the handler
\* reads and writes no state
Health ==
  /\ server = "listening"
  /\ HealthBody.status = "healthy"
  /\ UNCHANGED vars

\* GET /test, lines 316-326: answered by a listening process; the handler
\* reads the configuration and writes no state
Test ==
  /\ server = "listening"
  /\ TestBody.configured \in [asana : BOOLEAN, workspace : BOOLEAN, drive : BOOLEAN,
                              serviceAccount : BOOLEAN]
  /\ UNCHANGED vars

\* the calendar day advances
Tick ==
  /\ today < MaxDay
  /\ today' = today + 1
  /\ UNCHANGED <<env, server, req, folders, docs, faults>>

(* ----------------------- POST /backup-asana: helpers ------------------ *)
\* history: request q issues HTTP call `call` for project number i
Issue(q, i, call, off) == Append(q.log, [proj |-> i, call |-> call, offset |-> off])

\* history: the HTTP call `call` of request q, for its current project, threw
Threw(q, call) == [q EXCEPT !.threw = Append(q.threw, [proj |-> q.idx, call |-> call])]

\* number of results with the given status (lines 60-61)
CountStatus(results, st) == Cardinality({j \in 1..Len(results) : results[j].status = st})

\* lines 57-63 (the instant of `timestamp` is not modelled)
Summary(projects, results) ==
  [totalProjects |-> Len(projects),
   successful |-> CountStatus(results, "success"),
   failed |-> CountStatus(results, "failed"),
   results |-> results]

\* lines 65-69
OkResponse(projects, results) ==
  [status |-> 200,
   body |-> [success |-> TRUE, message |-> "Backup completed",
             summary |-> Summary(projects, results)]]

\* variant of ErrorResponse: the failure body is sent without status(500)
ErrorResponseNoStatus(msg) == [status |-> 200, body |-> [success |-> FALSE, error |-> msg]]

\* lines 73-76
ErrorResponse(msg) == [status |-> 500, body |-> [success |-> FALSE, error |-> msg]]

\* lines 71-77: the handler's outer catch ends the request
OuterCatch(q, msg) == [q EXCEPT !.pc = "done", !.response = ErrorResponse(msg)]

\* variant of PushResult: the result is put in front (unshift for push)
PushResultFront(results, res) == <<res>> \o results

\* backupResults.push(...), lines 44 and 48
PushResult(results, res) == Append(results, res)

\* the for-of loop moves on (line 40): the next project's first task request
\* is issued at once, or the loop is over and the summary is sent
LoopNext(q) ==
  IF q.idx < Len(q.projects)
  THEN [q EXCEPT !.idx = q.idx + 1, !.pc = "fetchTasks", !.tasks = <<>>,
                 !.offset = Null, !.files = <<>>, !.folderId = NoId,
                 !.spreadsheetId = NoId, !.stamp = 0,
                 !.log = Issue(q, q.idx + 1, "fetchTasks", Null)]
  ELSE [q EXCEPT !.pc = "done", !.tasks = <<>>, !.offset = Null, !.files = <<>>,
                 !.folderId = NoId, !.spreadsheetId = NoId, !.stamp = 0,
                 !.response = OkResponse(q.projects, q.results)]

\* variant of CatchProjectError: the error is not caught per project and
\* reaches the outer catch
CatchProjectErrorRethrow(q, msg) == OuterCatch(q, msg)

\* lines 46-53: the per-project catch records the failure; the loop goes on
CatchProjectError(q, msg) ==
  LoopNext([q EXCEPT !.results = PushResult(q.results,
              [project |-> q.projects[q.idx].name, status |-> "failed", error |-> msg])])

\* lines 139-146 and 44: createProjectBackup's return value is pushed
ProjectSucceeded(q) ==
  LoopNext([q EXCEPT !.results = PushResult(q.results,
              [project |-> q.projects[q.idx].name, status |-> "success",
               tasksCount |-> Len(q.tasks), folderId |-> q.folderId,
               spreadsheetId |-> q.spreadsheetId, timestamp |-> q.stamp])])

\* lines 148-150 then 46-53: an error inside createProjectBackup is rethrown
\* wrapped, and caught by the loop
BackupThrew(q, call) ==
  CatchProjectError(Threw(q, call), WrapError(q.projects[q.idx].name, ErrMsg(call)))

\* variant of TasksFetchThrew: fetchProjectTasks swallows the error and
\* returns the pages fetched so far, so createProjectBackup starts
TasksFetchPartial(q) ==
  [Threw(q, "fetchTasks") EXCEPT !.pc = "folderList",
                                 !.log = Issue(q, q.idx, "folderList", Null)]

\* lines 103-115 then 46-53: a page request of fetchProjectTasks throws; the
\* error leaves fetchProjectTasks, with the pages fetched so far, and is caught
\* by the loop
TasksFetchThrew(q) == CatchProjectError(Threw(q, "fetchTasks"), ErrMsg("fetchTasks"))

\* lines 82-92 then 71-77: the listing throws, to the outer catch
ListingThrew(q) == OuterCatch(Threw(q, "listProjects"), ErrMsg("listProjects"))

\* an HTTP call throws: always when the service cannot answer it (bad or
\* missing credentials, unknown identifier), and otherwise as one more fault
Throws(canAnswer) ==
  IF canAnswer THEN faults < MaxFaults /\ faults' = faults + 1
  ELSE UNCHANGED faults

(* ------------------------- POST /backup-asana ------------------------- *)
\* line 29-34: a request arrives; the handler calls fetchAsanaProjects
StartBackup(r) ==
  /\ server = "listening"
  /\ req[r].pc = "idle"
  /\ \A o \in Reqs : SlotBefore(o, r) => req[o].pc # "idle"
  /\ req' = [req EXCEPT ![r] = [@ EXCEPT !.pc = "listProjects",
                                        !.log = Issue(req[r], 0, "listProjects", Null)]]
  /\ UNCHANGED <<env, server, today, folders, docs, faults>>

\* lines 81-95 and 34-40: the listing answers with the workspace's projects
\* (at most `most` of them), or throws to the outer catch
FetchAsanaProjects(r, most) ==
  /\ req[r].pc = "listProjects"
  /\ \/ /\ env.asana /\ env.workspace
        /\ \E n \in 0..most :
             req' = [req EXCEPT ![r] = LoopNext([@ EXCEPT !.projects = ProjectList(n)])]
        /\ UNCHANGED faults
     \/ /\ Throws(env.asana /\ env.workspace)
        /\ req' = [req EXCEPT ![r] = ListingThrew(req[r])]
  /\ UNCHANGED <<env, server, today, folders, docs>>

\* variant of AppendPage: each page replaces the tasks collected so far
AppendPageOverwrite(tasks, data) == data

\* line 117
AppendPage(tasks, data) == tasks \o data

\* line 118: response.data.next_page?.offset
NextOffset(resp) == IF resp.next_page = <<>> THEN Undefined ELSE resp.next_page[1].offset

\* lines 102-120 and 42-43: one page request of fetchProjectTasks answers or
\* throws; after the last page createProjectBackup starts with the folder search
FetchProjectTasks(r) ==
  LET q == req[r]
      resp == TasksResponse(CurProject(r).gid, q.offset)
      got == [q EXCEPT !.tasks = AppendPage(q.tasks, resp.data), !.offset = NextOffset(resp)]
  IN
  /\ q.pc = "fetchTasks"
  /\ \/ /\ env.asana
        /\ req' = [req EXCEPT ![r] =
             IF Truthy(got.offset)
             THEN [got EXCEPT !.log = Issue(q, q.idx, "fetchTasks", got.offset)]
             ELSE [got EXCEPT !.pc = "folderList",
                              !.log = Issue(q, q.idx, "folderList", Null)]]
        /\ UNCHANGED faults
     \/ /\ Throws(env.asana)
        /\ req' = [req EXCEPT ![r] = TasksFetchThrew(q)]
  /\ UNCHANGED <<env, server, today, folders, docs>>

(* --------------------------- findOrCreateFolder ----------------------- *)
\* the folders the query of line 156 matches
Matching(name, parent) == {f \in folders : f.name = name /\ f.parent = parent}

\* the elements of a finite set, one after the other
RECURSIVE Listed(_)
Listed(S) ==
  IF S = {} THEN <<>>
  ELSE LET m == CHOOSE x \in S : TRUE IN <<m>> \o Listed(S \ {m})

\* The store hands out identifiers that are new and opaque.  The model names
\* each by the call that made the object: request r makes at most one folder
\* and one document for its project number i.
NewFolderId(r, i) == "folder-" \o r \o ToString(i)
NewDocId(r, i) == "sheet-" \o r \o ToString(i)

\* variant of FolderLookup: the search result is ignored
FolderLookupNone(files) == NoId

\* lines 164-166: the first file of the search response, if there is one
FolderLookup(files) == IF Len(files) > 0 THEN files[1] ELSE NoId

\* lines 158-166 (and 133, 186 when a folder is found): drive.files.list
\* answers with the matching folders, in an order the store chooses, or throws
FolderList(r) ==
  LET q == req[r]
      m == Matching(FolderName(CurProject(r)), GOOGLE_DRIVE_FOLDER_ID)
  IN
  /\ q.pc = "folderList"
  /\ \/ /\ env.drive
        /\ \E first \in (IF m = {} THEN {NoId} ELSE {f.id : f \in m}) :
            LET files == IF m = {} THEN <<>>
                         ELSE <<first>> \o Listed({f.id : f \in m} \ {first})
                found == FolderLookup(files)
            IN req' = [req EXCEPT ![r] =
                 IF found # NoId
                 THEN [q EXCEPT !.files = files, !.folderId = found, !.stamp = today,
                                !.pc = "ssCreate",
                                !.log = Issue(q, q.idx, "ssCreate", Null)]
                 ELSE [q EXCEPT !.files = files, !.pc = "folderCreate",
                                !.log = Issue(q, q.idx, "folderCreate", Null)]]
        /\ UNCHANGED faults
     \/ /\ Throws(env.drive)
        /\ req' = [req EXCEPT ![r] = BackupThrew(q, "folderList")]
  /\ UNCHANGED <<env, server, today, folders, docs>>

\* lines 169-180 (and 133, 186): drive.files.create makes the folder or throws
FolderCreate(r) ==
  LET q == req[r]
      name == FolderName(CurProject(r))
  IN
  /\ q.pc = "folderCreate"
  /\ \/ /\ folders' = folders \cup
             {[id |-> NewFolderId(r, q.idx), name |-> name,
               parent |-> GOOGLE_DRIVE_FOLDER_ID,
               by |-> r, listed |-> q.files,
               existed |-> {f.id : f \in Matching(name, GOOGLE_DRIVE_FOLDER_ID)}]}
        /\ req' = [req EXCEPT ![r] = [q EXCEPT !.folderId = NewFolderId(r, q.idx),
                                               !.stamp = today,
                                               !.pc = "ssCreate",
                                               !.log = Issue(q, q.idx, "ssCreate", Null)]]
        /\ UNCHANGED faults
     \/ /\ Throws(TRUE)
        /\ req' = [req EXCEPT ![r] = BackupThrew(q, "folderCreate")]
        /\ UNCHANGED folders
  /\ UNCHANGED <<env, server, today, docs>>

(* ------------------------- createTasksSpreadsheet --------------------- *)
\* variant of SubSteps: the Tasks tab is written before the move
SubStepsTasksFirst == <<"ssCreate", "ssTasks", "ssMove", "ssInfo", "ssFormat">>

\* the HTTP calls of createTasksSpreadsheet in program order (lines 186, 212,
\* 239, 263, 273)
SubSteps == <<"ssCreate", "ssMove", "ssTasks", "ssInfo", "ssFormat">>

\* the call that follows `call` in createTasksSpreadsheet; "return" after the last
StepAfter(call) ==
  LET k == CHOOSE j \in 1..Len(SubSteps) : SubSteps[j] = call
  IN IF k < Len(SubSteps) THEN SubSteps[k + 1] ELSE "return"

\* the request moves from one sub-step to the next, or returns to the loop
Advance(q) ==
  LET nxt == StepAfter(q.pc)
  IN IF nxt = "return" THEN ProjectSucceeded(q)
     ELSE [q EXCEPT !.pc = nxt, !.log = Issue(q, q.idx, nxt, Null)]

\* variant of Target: an existing document of the same title in the folder is
\* reused (an upsert by name), the new one only when there is none
TargetByTitle(q) ==
  LET same == {d \in docs : d.title = FileName(q.stamp) /\ q.folderId \in d.parents}
  IN IF same = {} THEN q.spreadsheetId ELSE (CHOOSE d \in same : TRUE).id

\* line 209: every later call names the identifier the create call returned
Target(q) == q.spreadsheetId

\* rows of the Tasks tab: the header row and one row per task (line 244)
TaskValues(tasks) == 1 + Len(tasks)

\* rows of the Project Info tab (lines 249-261)
ProjectInfoRows == 11

\* lines 186-209: sheets.spreadsheets.create makes a new document or throws
SsCreate(r) ==
  LET q == req[r] IN
  /\ q.pc = "ssCreate"
  /\ \/ /\ docs' = docs \cup
             {[id |-> NewDocId(r, q.idx), title |-> FileName(q.stamp), by |-> <<r, q.idx>>,
               parents |-> {}, tasksRows |-> 0, infoRows |-> 0, formatted |-> FALSE,
               writers |-> {}]}
        /\ req' = [req EXCEPT ![r] = Advance([q EXCEPT !.spreadsheetId = NewDocId(r, q.idx)])]
        /\ UNCHANGED faults
     \/ /\ Throws(TRUE)
        /\ req' = [req EXCEPT ![r] = BackupThrew(q, "ssCreate")]
        /\ UNCHANGED docs
  /\ UNCHANGED <<env, server, today, folders>>

\* what each update call does to the document it names
ApplyWrite(d, call, q) ==
  CASE call = "ssMove" -> [d EXCEPT !.parents = d.parents \cup {q.folderId}]
    [] call = "ssTasks" -> [d EXCEPT !.tasksRows = TaskValues(q.tasks)]
    [] call = "ssInfo" -> [d EXCEPT !.infoRows = ProjectInfoRows]
    [] call = "ssFormat" -> [d EXCEPT !.formatted = TRUE]

\* an update call on document Target(q): the store applies it and notes the
\* writer, or the call throws (always, when no such document exists)
WriteDoc(r, call) ==
  LET q == req[r] IN
  /\ q.pc = call
  /\ \/ \E d \in docs :
          /\ d.id = Target(q)
          /\ docs' = (docs \ {d}) \cup
               {[ApplyWrite(d, call, q) EXCEPT !.writers = d.writers \cup {<<r, q.idx>>}]}
          /\ req' = [req EXCEPT ![r] = Advance(q)]
          /\ UNCHANGED faults
     \/ /\ Throws(\E d \in docs : d.id = Target(q))
        /\ req' = [req EXCEPT ![r] = BackupThrew(q, call)]
        /\ UNCHANGED docs
  /\ UNCHANGED <<env, server, today, folders>>

\* lines 212-216: drive.files.update adds the folder as a parent
SsMove(r) == WriteDoc(r, "ssMove")

\* lines 239-246: values.update of Tasks!A1
SsTasks(r) == WriteDoc(r, "ssTasks")

\* lines 263-270: values.update of Project Info!A1
SsInfo(r) == WriteDoc(r, "ssInfo")

\* lines 273-307 (and 139-146, 44): batchUpdate formats the header row; the
\* spreadsheet is done and the project's result is pushed
SsFormat(r) == WriteDoc(r, "ssFormat")

(* ---------------------------- specification --------------------------- *)
\* what the process does apart from taking a request and listing projects
Serve ==
  \/ LoadModule
  \/ Health
  \/ Test
  \/ Tick
  \/ \E r \in Reqs : FetchProjectTasks(r)
  \/ \E r \in Reqs : FolderList(r)
  \/ \E r \in Reqs : FolderCreate(r)
  \/ \E r \in Reqs : SsCreate(r)
  \/ \E r \in Reqs : SsMove(r)
  \/ \E r \in Reqs : SsTasks(r)
  \/ \E r \in Reqs : SsInfo(r)
  \/ \E r \in Reqs : SsFormat(r)

\* requests arrive at any time, also while another is being served
Next ==
  \/ Serve
  \/ \E r \in Reqs : StartBackup(r)
  \/ \E r \in Reqs : FetchAsanaProjects(r, MaxOverlapProjects)

Spec == Init /\ [][Next]_vars

\* a request arrives only when none is being served
NextSequential ==
  \/ Serve
  \/ \E r \in Reqs : (\A o \in Reqs : ~InFlight(o)) /\ StartBackup(r)
  \/ \E r \in Reqs : FetchAsanaProjects(r, MaxProjects)

Sequential == Init /\ [][NextSequential]_vars

(* ------------------------------ properties --------------------------- *)
\* the calls request r has issued for its project number i, in order
CallsFor(r, i) ==
  LET own == SelectSeq(req[r].log, LAMBDA e : e.proj = i)
  IN [j \in 1..Len(own) |-> own[j].call]

\* the elements of a sequence
Range(seq) == {seq[j] : j \in 1..Len(seq)}

StoreCalls == {"folderList", "folderCreate", "ssCreate", "ssMove", "ssTasks",
               "ssInfo", "ssFormat"}

\* C1 (isolation): when a run lists N projects and the only call that throws
\* is a task request of project k, the response is the summary with
\* totalProjects = N, successful = N-1, failed = 1 and N results, one per
\* project in order; project k's is 'failed' with the error's message, the
\* others are 'success', and every project after k had its tasks requested.
Isolation ==
  \A r \in Reqs :
    LET q == req[r]
        N == Len(q.projects)
    IN \A k \in 1..N :
         (q.pc = "done" /\ q.threw = <<[proj |-> k, call |-> "fetchTasks"]>>)
         => /\ q.response.status = 200
            /\ q.response.body.success
            /\ LET sm == q.response.body.summary
               IN /\ sm.totalProjects = N
                  /\ sm.successful = N - 1
                  /\ sm.failed = 1
                  /\ Len(sm.results) = N
                  /\ \A j \in 1..N :
                       /\ sm.results[j].project = ProjectNames[j]
                       /\ sm.results[j].status = (IF j = k THEN "failed" ELSE "success")
                  /\ sm.results[k].error = "fetchTasks failed"
            /\ \A j \in (k + 1)..N : "fetchTasks" \in Range(CallsFor(r, j))

\* a finished run of two projects in which only the first project's task
\* request threw, and the second project was backed up
IsolationWitness ==
  \E r \in Reqs :
    /\ req[r].pc = "done"
    /\ Len(req[r].projects) = 2
    /\ req[r].threw = <<[proj |-> 1, call |-> "fetchTasks"]>>
    /\ req[r].results[2].status = "success"

\* C4 (run-level failure): when the project listing throws, the request ends
\* with status 500 and body {success: false, error: message}, without a
\* summary, and has made no other call: no project was processed and nothing
\* was asked of the destination store.  A 500 response has no other cause: a
\* throw inside the per-project loop never leads to it.
RunLevelFailure ==
  \A r \in Reqs :
    LET q == req[r] IN
    /\ (\E t \in Range(q.threw) : t.call = "listProjects")
       => /\ q.pc = "done"
          /\ q.response = [status |-> 500,
                           body |-> [success |-> FALSE, error |-> "listProjects failed"]]
          /\ q.results = <<>>
          /\ Len(q.log) = 1
          /\ \A f \in folders : f.by # r
          /\ \A d \in docs : d.by[1] # r
    /\ q.response.status = 500 => q.threw = <<[proj |-> 0, call |-> "listProjects"]>>
    /\ q.response.status = 200 => q.response.body.success

\* one request was answered 500 after its listing threw, and another got
\* its listing and finished with a summary of two projects
RunLevelFailureWitness ==
  \E r, o \in Reqs :
    /\ req[r].response.status = 500
    /\ req[o].response.status = 200
    /\ req[o].response.body.summary.totalProjects = 2

\* the offsets request r has passed in its task requests for project number i
OffsetsFor(r, i) ==
  LET own == SelectSeq(req[r].log, LAMBDA e : e.proj = i /\ e.call = "fetchTasks")
  IN [j \in 1..Len(own) |-> own[j].offset]

\* C2 (pagination): against a source that gives a token with every page but
\* the last, the first task request carries no offset, each later one carries
\* the token the page before it returned, no request follows the first page
\* without a token (so there are never more requests than pages, and the
\* loop ends), and what fetchProjectTasks returns is the concatenation of all
\* pages' tasks in page order.
Pagination ==
  \A r \in Reqs :
    LET q == req[r] IN
    \A i \in 1..Len(q.projects) :
      LET gid == q.projects[i].gid
          offs == OffsetsFor(r, i)
          returned == "folderList" \in Range(CallsFor(r, i))
      IN /\ Len(offs) <= NumPages(gid)
         /\ offs # <<>> => offs[1] = Null
         /\ \A j \in 2..Len(offs) :
              LET before == TasksResponse(gid, offs[j - 1])
              IN before.next_page # <<>> /\ offs[j] = before.next_page[1].offset
         /\ returned => Len(offs) = NumPages(gid)
         /\ (returned /\ q.idx = i /\ q.pc \in StoreCalls) => q.tasks = AllTasks(gid)
         /\ (Len(q.results) >= i /\ q.results[i].status = "success")
              => q.results[i].tasksCount = Len(AllTasks(gid))

\* fetchProjectTasks has returned the tasks of a project that has two pages
PaginationWitness ==
  \E r \in Reqs :
    /\ req[r].pc = "folderList"
    /\ NumPages(CurProject(r).gid) = 2
    /\ Len(OffsetsFor(r, req[r].idx)) = 2
    /\ Len(req[r].tasks) = 4

\* C7 (no partial task list): when a task request of a project throws, after
\* however many pages, the project's result is 'failed' with that error's
\* message and nothing else (no tasks, no task count), and the run makes no
\* findOrCreateFolder or spreadsheet call for the project: the store holds no
\* folder and no document made for it by this run.
NoPartialTasks ==
  \A r \in Reqs :
    LET q == req[r] IN
    \A t \in Range(q.threw) :
      t.call = "fetchTasks"
      => /\ Len(q.results) >= t.proj
         /\ q.results[t.proj] = [project |-> ProjectNames[t.proj], status |-> "failed",
                                 error |-> "fetchTasks failed"]
         /\ Range(CallsFor(r, t.proj)) \cap StoreCalls = {}
         /\ \A f \in folders : f.id # NewFolderId(r, t.proj)
         /\ \A d \in docs : d.by # <<r, t.proj>>

\* the request for the second page of a project threw after the first page
\* had been fetched
NoPartialTasksWitness ==
  \E r \in Reqs :
    \E t \in Range(req[r].threw) :
      /\ t.call = "fetchTasks"
      /\ Len(OffsetsFor(r, t.proj)) = 2
      /\ req[r].pc = "done"

\* the sub-steps of createTasksSpreadsheet as the claim lists them
FixedOrder == <<"ssCreate", "ssMove", "ssTasks", "ssInfo", "ssFormat">>

IsPrefix(a, b) == Len(a) <= Len(b) /\ \A j \in 1..Len(a) : a[j] = b[j]

\* C8 (sub-step order, abort, no rollback): the calls of
\* createTasksSpreadsheet are issued in the order create, move, Tasks values,
\* Project Info values, formatting; when one throws, no later one is issued,
\* the project's result is 'failed' with that first error's (wrapped) message,
\* and the document stays in the store as the earlier sub-steps left it.
SubStepsAbort ==
  \A r \in Reqs :
    LET q == req[r] IN
    \A i \in 1..Len(q.projects) :
      LET calls == CallsFor(r, i)
          ss == SelectSeq(calls, LAMBDA c : c \in Range(FixedOrder))
      IN /\ IsPrefix(ss, FixedOrder)
         /\ \A t \in Range(q.threw) :
              (t.proj = i /\ t.call \in Range(FixedOrder))
              => /\ calls[Len(calls)] = t.call
                 /\ Len(q.results) >= i
                 /\ q.results[i] =
                      [project |-> ProjectNames[i], status |-> "failed",
                       error |-> "Failed to backup " \o ProjectNames[i] \o ": "
                                   \o t.call \o " failed"]
                 /\ t.call # "ssCreate"
                    => \E d \in docs :
                         /\ d.by = <<r, i>>
                         /\ (d.parents # {}) = (t.call \in {"ssTasks", "ssInfo", "ssFormat"})
                         /\ (d.tasksRows > 0) = (t.call \in {"ssInfo", "ssFormat"})
                         /\ (d.infoRows > 0) = (t.call = "ssFormat")
                         /\ ~d.formatted

\* the Tasks values update of a project threw: the run is over and the
\* document is still there, moved into its folder and empty
SubStepsAbortWitness ==
  \E r \in Reqs :
    \E t \in Range(req[r].threw) :
      /\ t.call = "ssTasks"
      /\ req[r].pc = "done"
      /\ \E d \in docs : d.by = <<r, t.proj>> /\ d.parents # {} /\ d.tasksRows = 0

\* C9 (nothing parallel in a run): a request's calls are issued project by
\* project in listing order; for a project every task request comes before
\* every destination-store call; while the call for project i is in flight
\* exactly i-1 results have been appended, so no call for the next project
\* starts before this project's result is in; and results are in the order
\* of the listed projects.
OneAtATime ==
  \A r \in Reqs :
    LET q == req[r]
        log == q.log
    IN /\ \A a \in 1..(Len(log) - 1) :
            /\ log[a].proj <= log[a + 1].proj
            /\ ~(log[a].proj = log[a + 1].proj /\ log[a].call \in StoreCalls
                 /\ log[a + 1].call = "fetchTasks")
       /\ (InFlight(r) /\ q.idx >= 1)
            => /\ log[Len(log)].proj = q.idx
               /\ log[Len(log)].call = q.pc
               /\ Len(q.results) = q.idx - 1
       /\ \A e \in Range(log) : e.proj >= 1 => Len(q.results) >= e.proj - 1
       /\ \A j \in 1..Len(q.results) : q.results[j].project = q.projects[j].name
       /\ q.response.status = 200 => Len(q.results) = Len(q.projects)

\* a request is fetching the tasks of its second project, with the first
\* project's result appended
OneAtATimeWitness ==
  \E r \in Reqs :
    /\ req[r].pc = "fetchTasks"
    /\ req[r].idx = 2
    /\ Len(req[r].results) = 1
    /\ req[r].results[1].status = "success"

\* the value findOrCreateFolder returned to request r for project number i,
\* where the state still holds it
ReturnedFolder(r, i) ==
  LET q == req[r] IN
  IF q.idx = i /\ q.pc \in Range(FixedOrder) THEN q.folderId
  ELSE IF Len(q.results) >= i /\ q.results[i].status = "success"
       THEN q.results[i].folderId
       ELSE NoId

\* C3 (idempotence without concurrency): when requests come one after the
\* other, a folder is created only after a search that found none and when
\* none exists, so there is at most one folder of a name under the parent;
\* every call returns that folder's identifier, and once a call has returned
\* for a name, a later request issues no create for it and gets the same
\* identifier.
FolderIdempotent ==
  /\ \A f, g \in folders : (f.name = g.name /\ f.parent = g.parent) => f = g
  /\ \A f \in folders : f.listed = <<>> /\ f.existed = {}
  /\ \A r \in Reqs : \A i \in 1..Len(req[r].projects) :
       ReturnedFolder(r, i) # NoId
       => \E f \in folders : /\ f.id = ReturnedFolder(r, i)
                             /\ f.name = ProjectNames[i] \o " - Asana Backup"
                             /\ f.parent = "root"
  /\ \A o, r \in Reqs : \A i \in 1..Len(req[r].projects) :
       (SlotBefore(o, r) /\ "ssCreate" \in Range(CallsFor(o, i)))
       => /\ "folderCreate" \notin Range(CallsFor(r, i))
          /\ (ReturnedFolder(o, i) # NoId /\ ReturnedFolder(r, i) # NoId)
               => ReturnedFolder(o, i) = ReturnedFolder(r, i)

\* two requests, one after the other, both backed up the first project: the
\* first created the folder, the second found it, and there is one folder
FolderIdempotentWitness ==
  /\ req["A"].pc = "done" /\ req["B"].pc = "done"
  /\ Len(req["A"].results) >= 1 /\ Len(req["B"].results) >= 1
  /\ req["A"].results[1].status = "success"
  /\ req["B"].results[1].status = "success"
  /\ req["A"].results[1].folderId = req["B"].results[1].folderId
  /\ "folderCreate" \in Range(CallsFor("A", 1))
  /\ "folderCreate" \notin Range(CallsFor("B", 1))
  /\ Cardinality({f \in folders : f.name = "Alpha - Asana Backup"}) = 1

\* C10 (folder creation race): findOrCreateFolder creates only after its own
\* search found nothing, and nothing holds off another request in between:
\* two folders of one name under one parent come from two requests whose
\* searches both found nothing, the later create made while the other folder
\* already existed; two requests that both created for a name leave two
\* folders there and return different identifiers.
FolderRace ==
  /\ \A f \in folders : f.listed = <<>>
  /\ \A f, g \in folders :
       (f # g /\ f.name = g.name /\ f.parent = g.parent)
       => /\ f.by # g.by
          /\ f.id # g.id
          /\ f.id \in g.existed \/ g.id \in f.existed
  /\ \A r, o \in Reqs : \A i \in 1..Len(req[r].projects) :
       (r # o /\ i <= Len(req[o].projects)
        /\ "folderCreate" \in Range(CallsFor(r, i))
        /\ "folderCreate" \in Range(CallsFor(o, i))
        /\ ReturnedFolder(r, i) # NoId /\ ReturnedFolder(o, i) # NoId)
       => /\ ReturnedFolder(r, i) # ReturnedFolder(o, i)
          /\ Cardinality({f \in folders : f.name = FolderName(req[r].projects[i])}) = 2

\* both overlapping requests have finished, each reports success for the
\* project with a different folder identifier, and the parent holds two
\* folders of the same name
FolderRaceWitness ==
  /\ req["A"].pc = "done" /\ req["B"].pc = "done"
  /\ Len(req["A"].results) >= 1 /\ Len(req["B"].results) >= 1
  /\ req["A"].results[1].status = "success"
  /\ req["B"].results[1].status = "success"
  /\ req["A"].results[1].folderId # req["B"].results[1].folderId
  /\ \E f, g \in folders : f # g /\ f.name = g.name /\ f.parent = g.parent

\* C5 (a document is written only by the call that created it): every write
\* names the identifier the writer's own create returned, so a document's
\* writers are at most the call that created it; a successful call's document
\* is a new one, holds exactly what that call wrote, and stays so whatever
\* later calls and later runs do, also when they use the same name.
OwnDocumentOnly ==
  /\ \A d \in docs : d.writers \subseteq {d.by}
  /\ \A d, e \in docs : d.id = e.id => d = e
  /\ \A r \in Reqs :
       LET q == req[r] IN
       /\ q.pc \in {"ssMove", "ssTasks", "ssInfo", "ssFormat"}
          => \E d \in docs : d.id = q.spreadsheetId /\ d.by = <<r, q.idx>>
       /\ \A j \in 1..Len(q.results) :
            q.results[j].status = "success"
            => \E d \in docs :
                 /\ d.id = q.results[j].spreadsheetId
                 /\ d.by = <<r, j>>
                 /\ d.writers = {<<r, j>>}
                 /\ d.title = "Backup_" \o ToString(q.results[j].timestamp)
                 /\ d.parents = {q.results[j].folderId}
                 /\ d.tasksRows = 1 + q.results[j].tasksCount
                 /\ d.infoRows = 11
                 /\ d.formatted

\* two runs on the same day left two finished documents of the same title
\* in the same folder
OwnDocumentOnlyWitness ==
  \E d, e \in docs :
    /\ d.by[1] # e.by[1]
    /\ d.title = e.title
    /\ d.parents = e.parents
    /\ d.formatted /\ e.formatted

\* C6 (no configuration check at startup), as claimed: whichever
\* configuration values are absent, the others being well-formed, the process
\* gets through module load and listens, so that /health and /test are
\* served.
StartsWithoutConfig ==
  (server # "loading" /\ GOOGLE_SERVICE_ACCOUNT_KEY \in {Undefined, ServiceAccountJson})
    => server = "listening"

====
